---- MODULE Spec2Model ----
(***************************************************************************)
(* Book catalogue API with embedded reviews and a cached rating summary.   *)
(* Two servers are modelled: the router of core.js and the all-in-one      *)
(* working-server.js.  Every handler is cut at its awaits on the document  *)
(* store: one action per store operation together with the synchronous     *)
(* code that follows it up to the next await or the response.              *)
(*                                                                         *)
(* Numbers are kept in tenths (a rating of 5 is 50, an average of 4.0 is   *)
(* 40), so that one decimal place is exact.                                *)
(***************************************************************************)
EXTENDS Integers, Sequences, FiniteSets, TLC

\* ---------------------------------------------------------------- bounds
MaxUsers == 3
MaxBooks == 1
MaxReviewIds == 3
MaxInFlight == 2
MaxListedBooks == 3

\* default page size of the review listing of GET /books/:id
ReviewPageLimit == 5

\* ------------------------------------------------------------- JS values
Undef == [t |-> "undefined", n |-> 0, s |-> ""]
Null == [t |-> "null", n |-> 0, s |-> ""]
NaN == [t |-> "NaN", n |-> 0, s |-> ""]
Num(n) == [t |-> "number", n |-> n, s |-> ""]
Str(s) == [t |-> "string", n |-> 0, s |-> s]
Bool(b) == [t |-> "boolean", n |-> IF b THEN 1 ELSE 0, s |-> ""]

IsNum(v) == v.t = "number"

\* ToBoolean: what `!x`, `x && ...` and `if (x)` test
Truthy(v) ==
    CASE v.t = "number" -> v.n # 0
      [] v.t = "string" -> v.s # ""
      [] v.t = "boolean" -> v.n = 1
      [] OTHER -> FALSE

\* ToNumber of the strings used here: "" is 0, a non-numeric string is NaN
ToNumber(v) ==
    CASE v.t = "number" -> v
      [] v.t = "null" -> Num(0)
      [] v.t = "string" -> IF v.s = "" THEN Num(0) ELSE NaN
      [] OTHER -> NaN

\* `v < k` and `v > k` for a number k (in tenths): false when v is not a number
Less(v, k) == IsNum(ToNumber(v)) /\ ToNumber(v).n < k
Greater(v, k) == IsNum(ToNumber(v)) /\ ToNumber(v).n > k

\* parseInt: the integer part (towards zero) of a number, NaN for a string
\* without leading digits and for undefined
ParseInt(v) ==
    IF v.t = "number"
    THEN Num(IF v.n >= 0 THEN (v.n \div 10) * 10 ELSE -(((-v.n) \div 10) * 10))
    ELSE NaN

\* `x || ''`
OrEmpty(v) == IF Truthy(v) THEN v ELSE Str("")

\* what the driver stores for a field set to undefined (serialised as null)
Stored(v) == IF v.t = "undefined" THEN Null ELSE v

\* `a + b` of the reduce over ratings: concatenation once a string is met
\* (the strings that reach a rating are non-numeric, and so is the result)
Plus(a, b) ==
    CASE a.t = "string" \/ b.t = "string" -> Str("abc")
      [] IsNum(a) /\ IsNum(ToNumber(b)) /\ b.t # "undefined" -> Num(a.n + ToNumber(b).n)
      [] OTHER -> NaN

RECURSIVE SumFrom(_, _, _)
SumFrom(acc, reviews, i) ==
    IF i > Len(reviews) THEN acc
    ELSE SumFrom(Plus(acc, reviews[i].rating), reviews, i + 1)

\* reviews.reduce((sum, r) => sum + r.rating, 0)
TotalRating(reviews) == SumFrom(Num(0), reviews, 1)

\* totalRating / reviews.length: 0/0 is NaN, a concatenated string is NaN
Divide(total, count) ==
    IF IsNum(total) /\ count > 0
    THEN [q |-> total.n, d |-> count, nan |-> FALSE]
    ELSE [q |-> 0, d |-> 1, nan |-> TRUE]

Abs(x) == IF x < 0 THEN -x ELSE x

\* a toFixed that cuts the digits after the first decimal instead of rounding
ToFixed1Truncating(x) ==
    IF x.nan THEN NaN
    ELSE LET m == (10 * Abs(x.q)) \div (10 * x.d)
         IN Num(IF x.q < 0 THEN -m ELSE m)

\* parseFloat(x.toFixed(1)) of the quotient q/d of tenths: the nearest
\* tenth, the larger magnitude on a tie (the ties of fewer than twenty
\* integer ratings are .25 and .75, which are exact in binary)
ToFixed1(x) ==
    IF x.nan THEN NaN
    ELSE LET m == (2 * Abs(x.q) + x.d) \div (2 * x.d)
         IN Num(IF x.q < 0 THEN -m ELSE m)

\* a recomputation that forgets to divide by the number of reviews
AverageUndivided(reviews) == ToFixed1(Divide(TotalRating(reviews), 1))

\* the recomputation of POST and PUT: no guard against an empty array
AverageOf(reviews) == ToFixed1(Divide(TotalRating(reviews), Len(reviews)))

\* a DELETE that resets the average instead of recomputing it
AverageReset(reviews) == Num(0)

\* the recomputation of DELETE in core.js: 0 for an empty array
AverageOrZero(reviews) == IF Len(reviews) > 0 THEN AverageOf(reviews) ELSE Num(0)

\* ----------------------------------------------------------- identifiers
\* an identifier of a request path: a well-formed ObjectId or not
Oid(n) == [valid |-> TRUE, n |-> n]
MalformedId == [valid |-> FALSE, n |-> 0]
ObjectIdIsValid(id) == id.valid

\* the Authorization header
NoToken == [kind |-> "absent", userId |-> 0]
BadToken == [kind |-> "invalid", userId |-> 0]
TokenOf(u) == [kind |-> "valid", userId |-> u]

Users == 1..MaxUsers
Slots == 1..MaxInFlight
Tokens == {NoToken, BadToken} \cup {TokenOf(u) : u \in Users}
BookPathIds == {MalformedId} \cup {Oid(n) : n \in 1..(MaxBooks + 1)}
ReviewPathIds == {MalformedId} \cup {Oid(n) : n \in 1..MaxReviewIds}

\* toLowerCase of the titles and authors used
Lower(s) ==
    CASE s = "Dune" -> "dune"
      [] s = "DUNE" -> "dune"
      [] s = "Emma" -> "emma"
      [] OTHER -> s

\* the characters of the titles, authors and patterns used
Chars(s) ==
    CASE s = "Dune" -> <<"D", "u", "n", "e">>
      [] s = "DUNE" -> <<"D", "U", "N", "E">>
      [] s = "Emma" -> <<"E", "m", "m", "a">>
      [] s = "Herbert" -> <<"H", "e", "r", "b", "e", "r", "t">>
      [] s = "Austen" -> <<"A", "u", "s", "t", "e", "n">>
      [] s = "Fiction" -> <<"F", "i", "c", "t", "i", "o", "n">>
      [] s = "UN" -> <<"U", "N">>
      [] s = "AUS" -> <<"A", "U", "S">>
      [] s = "e" -> <<"e">>
      [] s = "x" -> <<"x">>
      [] s = "." -> <<".">>
      [] OTHER -> <<>>

\* the case folding of the 'i' option
LowerChar(c) ==
    CASE c = "A" -> "a"
      [] c = "D" -> "d"
      [] c = "E" -> "e"
      [] c = "F" -> "f"
      [] c = "H" -> "h"
      [] c = "N" -> "n"
      [] c = "S" -> "s"
      [] c = "U" -> "u"
      [] OTHER -> c

\* { $regex: pattern, $options: 'i' } on a string field: the pattern is a
\* regular expression, matched anywhere in the text; of the patterns used
\* only "." is not literal, and matches any one character
RegexMatches(pattern, text) ==
    LET pat == Chars(pattern.s)
        txt == Chars(text.s)
    IN /\ text.t = "string"
       /\ \E i \in 1..(Len(txt) - Len(pat) + 1) :
              \A k \in 1..Len(pat) :
                  \/ pat[k] = "."
                  \/ LowerChar(pat[k]) = LowerChar(txt[i + k - 1])

VARIABLES
    server,        \* "core" or "ws": which server is running
    workload,      \* what the clients send: the values of the request fields, how
                   \* many books they add and how many requests they keep in
                   \* flight; and how much of a response is observed
    books,         \* the books collection, in insertion order; _id is the index
    nextReviewId,  \* the next fresh ObjectId of a review
    reqs,          \* the requests in flight, by slot
    resp,          \* the response sent by the last step, NoResp otherwise
    acked,         \* ids of reviews answered 201 and not deleted by their author
    retired,       \* ids of reviews a DELETE of their author has taken out
    users,         \* the users collection, in insertion order
    listing        \* the body of the response of GET /books or GET /search
                   \* sent by the last step, NoListing otherwise

vars == <<server, workload, books, nextReviewId, reqs, resp, acked, retired,
          users, listing>>

\* ------------------------------------------------------------ documents
\* (createdAt and updatedAt are stored and read by no handler; they are
\* left out)
Review(id, userId, rating, comment) ==
    [id |-> id, userId |-> userId, rating |-> rating, comment |-> comment]

NoReview == Review(0, 0, Undef, Undef)

\* the document inserted by POST /books
\* (description, publishedYear and addedBy are stored and read by no
\* handler; they are left out, and so is createdAt, which GET /books sorts
\* by: the order of insertion stands for it)
NewBook(title, author, genre) ==
    [title |-> title, author |-> author, genre |-> genre,
     reviews |-> <<>>, averageRating |-> Num(0), totalReviews |-> 0]

BookIds == 1..Len(books)

ReviewIdsOf(reviews) == {reviews[i].id : i \in 1..Len(reviews)}

\* findOne({ _id: id })
BookExists(id) == id.n \in BookIds

\* findOne({ 'reviews._id': id }): the first book holding the review, else 0
BookOfReview(rid) ==
    LET hits == {b \in BookIds : rid \in ReviewIdsOf(books[b].reviews)}
    IN IF hits = {} THEN 0 ELSE CHOOSE b \in hits : \A c \in hits : b <= c

\* reviews.findIndex(r => r._id.toString() === id): 0 for -1
IndexOfReview(reviews, rid) ==
    LET hits == {i \in 1..Len(reviews) : reviews[i].id = rid}
    IN IF hits = {} THEN 0 ELSE CHOOSE i \in hits : \A j \in hits : i <= j

\* a lookup that stops at the first review of the array
HasFirstReviewBy(reviews, userId) == Len(reviews) > 0 /\ reviews[1].userId = userId

\* book.reviews.find(r => r.userId.toString() === req.user.userId)
HasReviewBy(reviews, userId) == \E i \in 1..Len(reviews) : reviews[i].userId = userId

\* $pull: { reviews: { _id: rid } }: every element with that id goes
Pull(reviews, rid) ==
    LET Keep(r) == r.id # rid
    IN SelectSeq(reviews, Keep)

\* reviews.splice(i, 1)
Splice(reviews, i) == SubSeq(reviews, 1, i - 1) \o SubSeq(reviews, i + 1, Len(reviews))

\* the query string of GET /books and GET /search; a numeric value is the
\* number in tenths, like every number here ("2" is Num(20))
Query(page, limit, author, genre, q) ==
    [page |-> page, limit |-> limit, author |-> author, genre |-> genre, q |-> q]

NoQuery == Query(Undef, Undef, Undef, Undef, Undef)

\* the body of a listing: the query it answers, the books of the page by
\* _id, and the pagination fields; hasNext and hasPrev are Undef, and the
\* three numbers 0, where the body carries no such field
Listing(query, ids, currentPage, totalPages, total, hasNext, hasPrev) ==
    [query |-> query, books |-> ids, currentPage |-> currentPage,
     totalPages |-> totalPages, total |-> total,
     hasNext |-> hasNext, hasPrev |-> hasPrev]

NoListing == Listing(NoQuery, <<>>, 0, 0, 0, Undef, Undef)

\* ------------------------------------------------------------- requests
Request(op, pc, tok, id, rating, comment) ==
    [op |-> op, pc |-> pc, tok |-> tok, id |-> id, rating |-> rating,
     comment |-> comment,
     title |-> Undef, author |-> Undef, genre |-> Undef,
     username |-> Undef, email |-> Undef,
     query |-> NoQuery, found |-> <<>>,
     book |-> 0, owner |-> 0, newReview |-> NoReview,
     avg |-> Num(0), snap |-> <<>>]

Idle == Request("idle", "", NoToken, MalformedId, Undef, Undef)

\* what is observed of a response: the handler and the status, and, when
\* the workload asks for it, the request that was answered (its token, path
\* id and body), the owner of the review it named and the review ids a GET
\* returned
Observed(op, status, tok, id, rating, comment, bodyUser, owner, seen) ==
    [op |-> op, status |-> status, tok |-> tok, id |-> id, rating |-> rating,
     comment |-> comment, bodyUser |-> bodyUser, owner |-> owner, seen |-> seen]

NoResp == Observed("none", 0, NoToken, MalformedId, Undef, Undef, 0, 0, {})

Response(op, status, tok, id, rating, comment, bodyUser, owner, seen) ==
    IF workload.detail
    THEN Observed(op, status, tok, id, rating, comment, bodyUser, owner, seen)
    ELSE Observed(op, status, NoToken, MalformedId, Undef, Undef, 0, 0, {})

\* the response to a request that was held in a slot
Reply(r, status) ==
    Response(r.op, status, r.tok, r.id, r.rating, r.comment, 0, r.owner, {})

InFlight == {s \in Slots : reqs[s] # Idle}

\* a request is taken into the lowest free slot
Accepts(s) ==
    /\ resp = NoResp
    /\ reqs[s] = Idle
    /\ \A t \in 1..(s - 1) : reqs[t] # Idle
    /\ Cardinality(InFlight) < workload.inflight

\* the request in slot s is at store operation pc of handler op
At(s, op, pc) ==
    /\ resp = NoResp
    /\ reqs[s].op = op
    /\ reqs[s].pc = pc

\* a middleware that looks for a token and does not verify it
AuthStatusUnverified(tok) == IF tok.kind = "absent" THEN 401 ELSE 0

\* authenticateToken (core.js) and auth (working-server.js): 0 lets the
\* request through to the handler
AuthStatus(tok) ==
    IF tok.kind = "absent" THEN 401
    ELSE IF tok.kind = "invalid" THEN 403
    ELSE 0

\* the middleware answers and the handler never runs
Rejected(op, tok) ==
    /\ resp' = Response(op, AuthStatus(tok), tok, MalformedId, Undef, Undef, 0, 0, {})
    /\ UNCHANGED <<server, workload, users, listing, books, nextReviewId, reqs, acked, retired>>

\* the handler answers before it writes anything
Answer(op, status, tok, id, rating, comment, bodyUser, owner) ==
    /\ resp' = Response(op, status, tok, id, rating, comment, bodyUser, owner, {})
    /\ UNCHANGED <<server, workload, users, listing, books, nextReviewId, reqs, acked, retired>>

\* the handler goes on to its next store operation
Hold(s, r) ==
    /\ reqs' = [reqs EXCEPT ![s] = r]
    /\ resp' = NoResp

\* the handler answers after its last store operation
Finish(s, status) ==
    /\ reqs' = [reqs EXCEPT ![s] = Idle]
    /\ resp' = Reply(reqs[s], status)

\* ------------------------------------------------------ core.js: books
PendingInserts == Cardinality({s \in Slots : reqs[s].op = "postBook"})

\* findOne({ title: /^title$/i, author: /^author$/i })
DuplicateBook(title, author) ==
    \E b \in BookIds :
        /\ Lower(books[b].title.s) = Lower(title.s)
        /\ Lower(books[b].author.s) = Lower(author.s)

\* POST /books up to the insert: middleware, validation, duplicate lookup
CorePostBook(s, tok, title, author, genre) ==
    /\ server = "core"
    /\ Accepts(s)
    /\ IF AuthStatus(tok) # 0 THEN Rejected("postBook", tok)
       ELSE IF ~Truthy(title) \/ ~Truthy(author) \/ ~Truthy(genre)
       THEN Answer("postBook", 400, tok, MalformedId, Undef, Undef, 0, 0)
       ELSE IF DuplicateBook(title, author)
       THEN Answer("postBook", 409, tok, MalformedId, Undef, Undef, 0, 0)
       ELSE /\ Len(books) + PendingInserts < workload.books
            /\ Hold(s, [Request("postBook", "insert", tok, MalformedId, Undef, Undef)
                          EXCEPT !.title = title, !.author = author, !.genre = genre])
            /\ UNCHANGED <<server, workload, users, listing, books, nextReviewId, acked, retired>>

\* insertOne(newBook) and the 201
CorePostBookInsert(s) ==
    /\ server = "core"
    /\ At(s, "postBook", "insert")
    /\ books' = Append(books, NewBook(reqs[s].title, reqs[s].author, reqs[s].genre))
    /\ Finish(s, 201)
    /\ UNCHANGED <<server, workload, users, listing, nextReviewId, acked, retired>>

\* the first ReviewPageLimit reviews, as the $unwind/$skip/$limit pipeline
\* of page 1 returns them
FirstPage(reviews) ==
    ReviewIdsOf(SubSeq(reviews, 1, IF Len(reviews) < ReviewPageLimit
                                   THEN Len(reviews) ELSE ReviewPageLimit))

\* GET /books/:id up to the aggregate: id check and findOne
CoreGetBook(s, id) ==
    /\ server = "core"
    /\ Accepts(s)
    /\ IF ~ObjectIdIsValid(id)
       THEN Answer("getBook", 400, NoToken, id, Undef, Undef, 0, 0)
       ELSE IF ~BookExists(id)
       THEN Answer("getBook", 404, NoToken, id, Undef, Undef, 0, 0)
       ELSE /\ Hold(s, [Request("getBook", "aggregate", NoToken, id, Undef, Undef)
                          EXCEPT !.book = id.n])
            /\ UNCHANGED <<server, workload, users, listing, books, nextReviewId, acked, retired>>

\* the aggregate over the book's reviews and the 200
CoreGetBookAggregate(s) ==
    /\ server = "core"
    /\ At(s, "getBook", "aggregate")
    /\ reqs' = [reqs EXCEPT ![s] = Idle]
    /\ resp' = Response("getBook", 200, NoToken, reqs[s].id, Undef, Undef, 0, 0,
                        FirstPage(books[reqs[s].book].reviews))
    /\ UNCHANGED <<server, workload, users, listing, books, nextReviewId, acked, retired>>

\* ----------------------------------------------- review handlers, shared
\* `!rating || rating < 1 || rating > 5` of POST /books/:id/reviews
RatingRejectedOnCreate(rating) ==
    ~Truthy(rating) \/ Less(rating, 10) \/ Greater(rating, 50)

\* `rating && (rating < 1 || rating > 5)` of PUT /reviews/:id in core.js
RatingRejectedOnUpdate(rating) ==
    Truthy(rating) /\ (Less(rating, 10) \/ Greater(rating, 50))

\* POST /books/:id/reviews up to the $push: the code is the same in both
\* servers
PostReview(s, tok, id, rating, comment) ==
    /\ Accepts(s)
    /\ IF AuthStatus(tok) # 0 THEN Rejected("postReview", tok)
       ELSE IF ~ObjectIdIsValid(id)
       THEN Answer("postReview", 400, tok, id, rating, comment, 0, 0)
       ELSE IF RatingRejectedOnCreate(rating)
       THEN Answer("postReview", 400, tok, id, rating, comment, 0, 0)
       ELSE IF ~BookExists(id)
       THEN Answer("postReview", 404, tok, id, rating, comment, 0, 0)
       ELSE IF HasReviewBy(books[id.n].reviews, tok.userId)
       THEN Answer("postReview", 409, tok, id, rating, comment, 0, 0)
       ELSE /\ nextReviewId <= workload.reviews
            /\ Hold(s, [Request("postReview", "push", tok, id, rating, comment)
                          EXCEPT !.book = id.n, !.owner = tok.userId,
                                 !.newReview = Review(nextReviewId, tok.userId,
                                                      ParseInt(rating), OrEmpty(comment))])
            /\ nextReviewId' = nextReviewId + 1
            /\ UNCHANGED <<server, workload, users, listing, books, acked, retired>>

\* updateOne({ _id }, { $push: { reviews: newReview }, $inc: { totalReviews: 1 } })
PostReviewPush(s) ==
    /\ At(s, "postReview", "push")
    /\ books' = [books EXCEPT ![reqs[s].book] =
                    [@ EXCEPT !.reviews = Append(@, reqs[s].newReview),
                              !.totalReviews = @ + 1]]
    /\ Hold(s, [reqs[s] EXCEPT !.pc = "reread"])
    /\ UNCHANGED <<server, workload, users, listing, nextReviewId, acked, retired>>

\* updatedBook = findOne({ _id }) and the average computed from it
PostReviewReread(s) ==
    /\ At(s, "postReview", "reread")
    /\ Hold(s, [reqs[s] EXCEPT !.pc = "setavg",
                               !.avg = AverageOf(books[reqs[s].book].reviews)])
    /\ UNCHANGED <<server, workload, users, listing, books, nextReviewId, acked, retired>>

\* updateOne({ _id }, { $set: { averageRating } }) and the 201
PostReviewSetAverage(s) ==
    /\ At(s, "postReview", "setavg")
    /\ books' = [books EXCEPT ![reqs[s].book].averageRating = reqs[s].avg]
    /\ Finish(s, 201)
    /\ acked' = IF reqs[s].newReview.id \in retired
                THEN acked
                ELSE acked \cup {reqs[s].newReview.id}
    /\ UNCHANGED <<server, workload, users, listing, nextReviewId, retired>>

\* ---------------------------------------------------- core.js: reviews
CorePostReview(s, tok, id, rating, comment) ==
    server = "core" /\ PostReview(s, tok, id, rating, comment)

CorePostReviewPush(s) == server = "core" /\ PostReviewPush(s)

CorePostReviewReread(s) == server = "core" /\ PostReviewReread(s)

CorePostReviewSetAverage(s) == server = "core" /\ PostReviewSetAverage(s)

\* an ownership check that trusts a userId sent in the body
CallerIdFromBody(tok, bodyUser) == IF bodyUser # 0 THEN bodyUser ELSE tok.userId

\* req.user.userId, the only identity the ownership checks read
CallerId(tok, bodyUser) == tok.userId

\* PUT /reviews/:id up to the positional $set
CorePutReview(s, tok, id, rating, comment, bodyUser) ==
    /\ server = "core"
    /\ Accepts(s)
    /\ IF AuthStatus(tok) # 0 THEN Rejected("putReview", tok)
       ELSE IF ~ObjectIdIsValid(id)
       THEN Answer("putReview", 400, tok, id, rating, comment, bodyUser, 0)
       ELSE IF RatingRejectedOnUpdate(rating)
       THEN Answer("putReview", 400, tok, id, rating, comment, bodyUser, 0)
       ELSE IF BookOfReview(id.n) = 0
       THEN Answer("putReview", 404, tok, id, rating, comment, bodyUser, 0)
       ELSE LET b == BookOfReview(id.n)
                review == books[b].reviews[IndexOfReview(books[b].reviews, id.n)]
            IN IF review.userId # CallerId(tok, bodyUser)
               THEN Answer("putReview", 403, tok, id, rating, comment, bodyUser,
                           review.userId)
               ELSE /\ Hold(s, [Request("putReview", "set", tok, id, rating, comment)
                                  EXCEPT !.book = b, !.owner = review.userId])
                    /\ UNCHANGED <<server, workload, users, listing, books, nextReviewId, acked, retired>>

\* the fields of updateFields applied to one review
WithFields(review, rating, comment) ==
    [review EXCEPT !.rating = IF Truthy(rating) THEN ParseInt(rating) ELSE @,
                   !.comment = IF comment.t # "undefined" THEN comment ELSE @]

\* updateOne({ 'reviews._id': id }, { $set: { 'reviews.$.rating': ..,
\* 'reviews.$.comment': .., 'reviews.$.updatedAt': .. } }): the first book
\* holding the review, its first element with that id; the 200 when no
\* rating was given
CorePutReviewSet(s) ==
    /\ server = "core"
    /\ At(s, "putReview", "set")
    /\ LET b == BookOfReview(reqs[s].id.n)
       IN IF b = 0 THEN UNCHANGED books
          ELSE LET i == IndexOfReview(books[b].reviews, reqs[s].id.n)
               IN books' = [books EXCEPT ![b].reviews[i] =
                               WithFields(@, reqs[s].rating, reqs[s].comment)]
    /\ IF Truthy(reqs[s].rating)
       THEN Hold(s, [reqs[s] EXCEPT !.pc = "reread"])
       ELSE Finish(s, 200)
    /\ UNCHANGED <<server, workload, users, listing, nextReviewId, acked, retired>>

\* updatedBook = findOne({ _id: book._id }) and the average computed from it
CorePutReviewReread(s) ==
    /\ server = "core"
    /\ At(s, "putReview", "reread")
    /\ Hold(s, [reqs[s] EXCEPT !.pc = "setavg",
                               !.avg = AverageOf(books[reqs[s].book].reviews)])
    /\ UNCHANGED <<server, workload, users, listing, books, nextReviewId, acked, retired>>

\* updateOne({ _id: book._id }, { $set: { averageRating } }) and the 200
CorePutReviewSetAverage(s) ==
    /\ server = "core"
    /\ At(s, "putReview", "setavg")
    /\ books' = [books EXCEPT ![reqs[s].book].averageRating = reqs[s].avg]
    /\ Finish(s, 200)
    /\ UNCHANGED <<server, workload, users, listing, nextReviewId, acked, retired>>

\* DELETE /reviews/:id up to the $pull
CoreDeleteReview(s, tok, id, bodyUser) ==
    /\ server = "core"
    /\ Accepts(s)
    /\ IF AuthStatus(tok) # 0 THEN Rejected("deleteReview", tok)
       ELSE IF ~ObjectIdIsValid(id)
       THEN Answer("deleteReview", 400, tok, id, Undef, Undef, bodyUser, 0)
       ELSE IF BookOfReview(id.n) = 0
       THEN Answer("deleteReview", 404, tok, id, Undef, Undef, bodyUser, 0)
       ELSE LET b == BookOfReview(id.n)
                review == books[b].reviews[IndexOfReview(books[b].reviews, id.n)]
            IN IF review.userId # CallerId(tok, bodyUser)
               THEN Answer("deleteReview", 403, tok, id, Undef, Undef, bodyUser,
                           review.userId)
               ELSE /\ Hold(s, [Request("deleteReview", "pull", tok, id, Undef, Undef)
                                  EXCEPT !.book = b, !.owner = review.userId])
                    /\ UNCHANGED <<server, workload, users, listing, books, nextReviewId, acked, retired>>

\* a removal that runs the update on every book (updateMany with no filter)
CoreDeleteReviewPullEveryBook(s) ==
    /\ server = "core"
    /\ At(s, "deleteReview", "pull")
    /\ books' = [b \in BookIds |->
                    [books[b] EXCEPT !.reviews = Pull(@, reqs[s].id.n),
                                     !.totalReviews = @ - 1]]
    /\ acked' = acked \ {reqs[s].id.n}
    /\ retired' = retired \cup {reqs[s].id.n}
    /\ Hold(s, [reqs[s] EXCEPT !.pc = "reread"])
    /\ UNCHANGED <<server, workload, users, listing, nextReviewId>>

\* updateOne({ _id: book._id }, { $pull: { reviews: { _id } },
\* $inc: { totalReviews: -1 } }): the count goes down whether or not the
\* review is still there
CoreDeleteReviewPull(s) ==
    /\ server = "core"
    /\ At(s, "deleteReview", "pull")
    /\ books' = [books EXCEPT ![reqs[s].book] =
                    [@ EXCEPT !.reviews = Pull(@, reqs[s].id.n),
                              !.totalReviews = @ - 1]]
    /\ acked' = acked \ {reqs[s].id.n}
    /\ retired' = retired \cup {reqs[s].id.n}
    /\ Hold(s, [reqs[s] EXCEPT !.pc = "reread"])
    /\ UNCHANGED <<server, workload, users, listing, nextReviewId>>

\* updatedBook = findOne({ _id: book._id }) and the average, 0 when empty
CoreDeleteReviewReread(s) ==
    /\ server = "core"
    /\ At(s, "deleteReview", "reread")
    /\ Hold(s, [reqs[s] EXCEPT !.pc = "setavg",
                               !.avg = AverageOrZero(books[reqs[s].book].reviews)])
    /\ UNCHANGED <<server, workload, users, listing, books, nextReviewId, acked, retired>>

\* updateOne({ _id: book._id }, { $set: { averageRating } }) and the 200
CoreDeleteReviewSetAverage(s) ==
    /\ server = "core"
    /\ At(s, "deleteReview", "setavg")
    /\ books' = [books EXCEPT ![reqs[s].book].averageRating = reqs[s].avg]
    /\ Finish(s, 200)
    /\ UNCHANGED <<server, workload, users, listing, nextReviewId, acked, retired>>

\* ------------------------------------------------- working-server.js
\* POST /books: middleware, validation, insertOne and the 201; no
\* duplicate lookup
WsPostBook(s, tok, title, author, genre) ==
    /\ server = "ws"
    /\ Accepts(s)
    /\ IF AuthStatus(tok) # 0 THEN Rejected("postBook", tok)
       ELSE IF ~Truthy(title) \/ ~Truthy(author) \/ ~Truthy(genre)
       THEN Answer("postBook", 400, tok, MalformedId, Undef, Undef, 0, 0)
       ELSE /\ Len(books) < workload.books
            /\ books' = Append(books, NewBook(title, author, genre))
            /\ resp' = Response("postBook", 201, tok, MalformedId, Undef, Undef, 0, 0, {})
            /\ UNCHANGED <<server, workload, users, listing, nextReviewId, reqs, acked, retired>>

\* GET /books/:id: the whole document is returned
WsGetBook(s, id) ==
    /\ server = "ws"
    /\ Accepts(s)
    /\ resp' = IF ~ObjectIdIsValid(id)
               THEN Response("getBook", 400, NoToken, id, Undef, Undef, 0, 0, {})
               ELSE IF ~BookExists(id)
               THEN Response("getBook", 404, NoToken, id, Undef, Undef, 0, 0, {})
               ELSE Response("getBook", 200, NoToken, id, Undef, Undef, 0, 0,
                             ReviewIdsOf(books[id.n].reviews))
    /\ UNCHANGED <<server, workload, users, listing, books, nextReviewId, reqs, acked, retired>>

WsPostReview(s, tok, id, rating, comment) ==
    server = "ws" /\ PostReview(s, tok, id, rating, comment)

WsPostReviewPush(s) == server = "ws" /\ PostReviewPush(s)

WsPostReviewReread(s) == server = "ws" /\ PostReviewReread(s)

WsPostReviewSetAverage(s) == server = "ws" /\ PostReviewSetAverage(s)

\* PUT /reviews/:id up to the write of the array: new ObjectId(id) throws
\* on a malformed id, which the catch turns into 500; rating and comment
\* are assigned as they came
WsPutReview(s, tok, id, rating, comment, bodyUser) ==
    /\ server = "ws"
    /\ Accepts(s)
    /\ IF AuthStatus(tok) # 0 THEN Rejected("putReview", tok)
       ELSE IF ~ObjectIdIsValid(id)
       THEN Answer("putReview", 500, tok, id, rating, comment, bodyUser, 0)
       ELSE IF BookOfReview(id.n) = 0
       THEN Answer("putReview", 404, tok, id, rating, comment, bodyUser, 0)
       ELSE LET b == BookOfReview(id.n)
                i == IndexOfReview(books[b].reviews, id.n)
                review == books[b].reviews[i]
            IN IF i = 0 \/ review.userId # CallerId(tok, bodyUser)
               THEN Answer("putReview", 403, tok, id, rating, comment, bodyUser,
                           review.userId)
               ELSE /\ Hold(s, [Request("putReview", "write", tok, id, rating, comment)
                                  EXCEPT !.book = b, !.owner = review.userId,
                                         !.snap = [books[b].reviews EXCEPT
                                                     ![i].rating = Stored(rating),
                                                     ![i].comment = Stored(comment)]])
                    /\ UNCHANGED <<server, workload, users, listing, books, nextReviewId, acked, retired>>

\* DELETE /reviews/:id up to the write of the array
WsDeleteReview(s, tok, id, bodyUser) ==
    /\ server = "ws"
    /\ Accepts(s)
    /\ IF AuthStatus(tok) # 0 THEN Rejected("deleteReview", tok)
       ELSE IF ~ObjectIdIsValid(id)
       THEN Answer("deleteReview", 500, tok, id, Undef, Undef, bodyUser, 0)
       ELSE IF BookOfReview(id.n) = 0
       THEN Answer("deleteReview", 404, tok, id, Undef, Undef, bodyUser, 0)
       ELSE LET b == BookOfReview(id.n)
                i == IndexOfReview(books[b].reviews, id.n)
                review == books[b].reviews[i]
            IN IF i = 0 \/ review.userId # CallerId(tok, bodyUser)
               THEN Answer("deleteReview", 403, tok, id, Undef, Undef, bodyUser,
                           review.userId)
               ELSE /\ Hold(s, [Request("deleteReview", "write", tok, id, Undef, Undef)
                                  EXCEPT !.book = b, !.owner = review.userId,
                                         !.snap = Splice(books[b].reviews, i)])
                    /\ UNCHANGED <<server, workload, users, listing, books, nextReviewId, acked, retired>>

\* updateOne({ _id: book._id }, { $set: { reviews: book.reviews } }) of PUT
\* and the 200: totalReviews and averageRating are left as they are
WsPutReviewWrite(s) ==
    /\ server = "ws"
    /\ At(s, "putReview", "write")
    /\ books' = [books EXCEPT ![reqs[s].book].reviews = reqs[s].snap]
    /\ Finish(s, 200)
    /\ UNCHANGED <<server, workload, users, listing, nextReviewId, acked, retired>>

\* updateOne({ _id: book._id }, { $set: { reviews: book.reviews } }) of
\* DELETE and the 200
WsDeleteReviewWrite(s) ==
    /\ server = "ws"
    /\ At(s, "deleteReview", "write")
    /\ books' = [books EXCEPT ![reqs[s].book].reviews = reqs[s].snap]
    /\ acked' = acked \ {reqs[s].id.n}
    /\ retired' = retired \cup {reqs[s].id.n}
    /\ Finish(s, 200)
    /\ UNCHANGED <<server, workload, users, listing, nextReviewId>>

\* ------------------------------------------------- listing and search
\* `parseInt(x) || d`, as a plain integer
ParseIntOr(v, d) == IF Truthy(ParseInt(v)) THEN ParseInt(v).n \div 10 ELSE d

\* destructuring with a default, then parseInt: `{ page = 1 }`, parseInt(page)
ParseIntDefault(v, d) == IF v = Undef THEN d ELSE ParseInt(v).n \div 10

\* Math.ceil(n / l) for l > 0
Ceil(n, l) == (n + l - 1) \div l

RECURSIVE Ascending(_)
Ascending(ids) ==
    IF ids = {} THEN <<>>
    ELSE LET m == CHOOSE x \in ids : \A y \in ids : x <= y
         IN <<m>> \o Ascending(ids \ {m})

RECURSIVE Descending(_)
Descending(ids) ==
    IF ids = {} THEN <<>>
    ELSE LET m == CHOOSE x \in ids : \A y \in ids : x >= y
         IN <<m>> \o Descending(ids \ {m})

\* the filter of GET /books: author and genre, each only when given
ListFilter(query) ==
    {b \in BookIds :
        /\ Truthy(query.author) => RegexMatches(query.author, books[b].author)
        /\ Truthy(query.genre) => RegexMatches(query.genre, books[b].genre)}

\* the $or of GET /search: title or author
SearchFilter(query) ==
    {b \in BookIds :
        \/ RegexMatches(query.q, books[b].title)
        \/ RegexMatches(query.q, books[b].author)}

\* .skip(skip).limit(limit) of the cursor, applied by the store after the sort
SkipLimit(ids, skip, limit) ==
    SubSeq(ids, skip + 1, IF skip + limit < Len(ids) THEN skip + limit ELSE Len(ids))

\* .sort({ createdAt: -1 }): the newest first; books are created one after
\* the other, so that is the insertion order backwards
NewestFirst(ids) == Descending(ids)

\* the store's natural order of a find without a sort: insertion order
NaturalOrder(ids) == Ascending(ids)

\* .sort({ averageRating: -1, totalReviews: -1 }): an arrangement of the
\* books that descends in averageRating and, among equals, in totalReviews;
\* the store promises no order among books equal in both
SortedByRating(order) ==
    \A i \in 1..(Len(order) - 1) :
        LET a == books[order[i]]
            b == books[order[i + 1]]
        IN \/ a.averageRating.n > b.averageRating.n
           \/ /\ a.averageRating.n = b.averageRating.n
              /\ a.totalReviews >= b.totalReviews

Arrangements(ids) ==
    {order \in [1..Cardinality(ids) -> ids] :
        \A i, j \in 1..Cardinality(ids) : i # j => order[i] # order[j]}

\* GET /books of core.js up to countDocuments: the page of the sorted find
CoreListBooks(s, page, limit, author, genre) ==
    /\ server = "core"
    /\ Accepts(s)
    /\ LET query == Query(page, limit, author, genre, Undef)
           p == ParseIntOr(page, 1)
           l == ParseIntOr(limit, 10)
       IN Hold(s, [Request("listBooks", "count", NoToken, MalformedId, Undef, Undef)
                      EXCEPT !.query = query,
                             !.found = SkipLimit(NewestFirst(ListFilter(query)),
                                                 (p - 1) * l, l)])
    /\ UNCHANGED <<server, workload, users, listing, books, nextReviewId, acked, retired>>

\* countDocuments and the 200 with the pagination
CoreListBooksCount(s) ==
    /\ server = "core"
    /\ At(s, "listBooks", "count")
    /\ LET query == reqs[s].query
           p == ParseIntOr(query.page, 1)
           l == ParseIntOr(query.limit, 10)
           totalBooks == Cardinality(ListFilter(query))
           totalPages == Ceil(totalBooks, l)
       IN listing' = Listing(query, reqs[s].found, p, totalPages, totalBooks,
                             Bool(p < totalPages), Bool(p > 1))
    /\ Finish(s, 200)
    /\ UNCHANGED <<server, workload, users, books, nextReviewId, acked, retired>>

\* GET /books of working-server.js up to countDocuments: no sort
WsListBooks(s, page, limit, author, genre) ==
    /\ server = "ws"
    /\ Accepts(s)
    /\ LET query == Query(page, limit, author, genre, Undef)
           p == ParseIntOr(page, 1)
           l == ParseIntOr(limit, 10)
       IN Hold(s, [Request("listBooks", "count", NoToken, MalformedId, Undef, Undef)
                      EXCEPT !.query = query,
                             !.found = SkipLimit(NaturalOrder(ListFilter(query)),
                                                 (p - 1) * l, l)])
    /\ UNCHANGED <<server, workload, users, listing, books, nextReviewId, acked, retired>>

\* countDocuments and the 200: currentPage, totalPages and totalBooks only
WsListBooksCount(s) ==
    /\ server = "ws"
    /\ At(s, "listBooks", "count")
    /\ LET query == reqs[s].query
           p == ParseIntOr(query.page, 1)
           l == ParseIntOr(query.limit, 10)
           total == Cardinality(ListFilter(query))
       IN listing' = Listing(query, reqs[s].found, p, Ceil(total, l), total,
                             Undef, Undef)
    /\ Finish(s, 200)
    /\ UNCHANGED <<server, workload, users, books, nextReviewId, acked, retired>>

\* GET /search of core.js up to countDocuments: 400 without q, else the
\* page of the find sorted by rating
CoreSearch(s, q, page, limit) ==
    /\ server = "core"
    /\ Accepts(s)
    /\ IF ~Truthy(q)
       THEN Answer("search", 400, NoToken, MalformedId, Undef, Undef, 0, 0)
       ELSE LET query == Query(page, limit, Undef, Undef, q)
                p == ParseIntDefault(page, 1)
                l == ParseIntDefault(limit, 10)
            IN /\ \E order \in Arrangements(SearchFilter(query)) :
                      /\ SortedByRating(order)
                      /\ Hold(s, [Request("search", "count", NoToken, MalformedId,
                                          Undef, Undef)
                                     EXCEPT !.query = query,
                                            !.found = SkipLimit(order, (p - 1) * l, l)])
               /\ UNCHANGED <<server, workload, users, listing, books, nextReviewId,
                              acked, retired>>

\* countDocuments and the 200 with the pagination
CoreSearchCount(s) ==
    /\ server = "core"
    /\ At(s, "search", "count")
    /\ LET query == reqs[s].query
           p == ParseIntDefault(query.page, 1)
           l == ParseIntDefault(query.limit, 10)
           totalResults == Cardinality(SearchFilter(query))
           totalPages == Ceil(totalResults, l)
       IN listing' = Listing(query, reqs[s].found, p, totalPages, totalResults,
                             Bool(p < totalPages), Bool(p > 1))
    /\ Finish(s, 200)
    /\ UNCHANGED <<server, workload, users, books, nextReviewId, acked, retired>>

\* GET /search of working-server.js: 400 without q, else every match in the
\* store's natural order; page and limit are not read
WsSearch(s, q, page, limit) ==
    /\ server = "ws"
    /\ Accepts(s)
    /\ IF ~Truthy(q)
       THEN Answer("search", 400, NoToken, MalformedId, Undef, Undef, 0, 0)
       ELSE LET query == Query(page, limit, Undef, Undef, q)
            IN /\ resp' = Response("search", 200, NoToken, MalformedId, Undef, Undef,
                                   0, 0, {})
               /\ listing' = Listing(query, NaturalOrder(SearchFilter(query)),
                                     0, 0, 0, Undef, Undef)
               /\ UNCHANGED <<server, workload, users, books, nextReviewId, reqs,
                              acked, retired>>

\* --------------------------------------------------------------- signup
\* (POST /signup of core.js and of working-server.js; the password hash and
\* the token of the response are read by no handler modelled here)
User(username, email) == [username |-> username, email |-> email]

\* password.length of the passwords used
Length(v) ==
    CASE v.s = "abc" -> 3
      [] v.s = "secret" -> 6
      [] OTHER -> 0

\* findOne({ $or: [{ email }, { username }] })
UserExists(username, email) ==
    \E i \in 1..Len(users) :
        users[i].email = email \/ users[i].username = username

\* signups between their findOne and their insertOne
PendingSignups ==
    Cardinality({s \in Slots : reqs[s].op = "signup" /\ reqs[s].pc = "insert"})

\* POST /signup up to findOne: the fields, the password length (core.js
\* only), the lookup of the username and the email
Signup(s, username, email, password) ==
    /\ Accepts(s)
    /\ IF ~Truthy(username) \/ ~Truthy(email) \/ ~Truthy(password)
       THEN Answer("signup", 400, NoToken, MalformedId, Undef, Undef, 0, 0)
       ELSE IF server = "core" /\ Length(password) < 6
       THEN Answer("signup", 400, NoToken, MalformedId, Undef, Undef, 0, 0)
       ELSE IF UserExists(username, email)
       THEN Answer("signup", 409, NoToken, MalformedId, Undef, Undef, 0, 0)
       ELSE /\ Len(users) + PendingSignups < workload.users
            /\ Hold(s, [Request("signup", "insert", NoToken, MalformedId, Undef, Undef)
                           EXCEPT !.username = username, !.email = email])
            /\ UNCHANGED <<server, workload, users, listing, books, nextReviewId,
                           acked, retired>>

\* POST /signup after bcrypt.hash: insertOne and the 201
SignupInsert(s) ==
    /\ At(s, "signup", "insert")
    /\ users' = Append(users, User(reqs[s].username, reqs[s].email))
    /\ Finish(s, 201)
    /\ UNCHANGED <<server, workload, listing, books, nextReviewId, acked, retired>>

\* ------------------------------------------------------- specifications
ValidRatings == {Num(10), Num(30), Num(50)}
AnyRatings == {Undef, Num(-10), Num(0), Num(10), Num(30), Num(50), Num(60), Str("abc")}
Comments == {Undef, Str(""), Str("c")}
Titles == {Undef, Str("Dune"), Str("DUNE"), Str("Emma")}
Authors == {Str("Herbert")}
Genres == {Undef, Str("Fiction")}


ValidTokens == {TokenOf(u) : u \in Users}

\* the client takes the response
ClientReceives ==
    /\ resp # NoResp
    /\ resp' = NoResp
    /\ listing' = NoListing
    /\ UNCHANGED <<server, workload, users, books, nextReviewId, reqs, acked, retired>>

\* the state after start-up: an empty store, nothing in flight
InitStore ==
    /\ books = <<>>
    /\ nextReviewId = 1
    /\ reqs = [s \in Slots |-> Idle]
    /\ resp = NoResp
    /\ acked = {}
    /\ retired = {}
    /\ users = <<>>
    /\ listing = NoListing

NextCore ==
    \/ ClientReceives
    \/ \E s \in Slots, tok \in workload.tokens, title \in workload.titles,
          author \in Authors, genre \in Genres :
          CorePostBook(s, tok, title, author, genre)
    \/ \E s \in Slots : CorePostBookInsert(s)
    \/ \E s \in Slots, id \in BookPathIds : CoreGetBook(s, id)
    \/ \E s \in Slots : CoreGetBookAggregate(s)
    \/ \E s \in Slots, tok \in workload.tokens, id \in BookPathIds,
          rating \in workload.ratings, comment \in workload.comments :
          CorePostReview(s, tok, id, rating, comment)
    \/ \E s \in Slots : CorePostReviewPush(s)
    \/ \E s \in Slots : CorePostReviewReread(s)
    \/ \E s \in Slots : CorePostReviewSetAverage(s)
    \/ \E s \in Slots, tok \in workload.tokens, id \in ReviewPathIds,
          rating \in workload.putRatings, comment \in workload.comments,
          bodyUser \in workload.bodyUsers :
          CorePutReview(s, tok, id, rating, comment, bodyUser)
    \/ \E s \in Slots : CorePutReviewSet(s)
    \/ \E s \in Slots : CorePutReviewReread(s)
    \/ \E s \in Slots : CorePutReviewSetAverage(s)
    \/ \E s \in Slots, tok \in workload.tokens, id \in ReviewPathIds,
          bodyUser \in workload.bodyUsers :
          CoreDeleteReview(s, tok, id, bodyUser)
    \/ \E s \in Slots : CoreDeleteReviewPull(s)
    \/ \E s \in Slots : CoreDeleteReviewReread(s)
    \/ \E s \in Slots : CoreDeleteReviewSetAverage(s)

NextWs ==
    \/ ClientReceives
    \/ \E s \in Slots, tok \in workload.tokens, title \in workload.titles,
          author \in Authors, genre \in Genres :
          WsPostBook(s, tok, title, author, genre)
    \/ \E s \in Slots, id \in BookPathIds : WsGetBook(s, id)
    \/ \E s \in Slots, tok \in workload.tokens, id \in BookPathIds,
          rating \in workload.ratings, comment \in workload.comments :
          WsPostReview(s, tok, id, rating, comment)
    \/ \E s \in Slots : WsPostReviewPush(s)
    \/ \E s \in Slots : WsPostReviewReread(s)
    \/ \E s \in Slots : WsPostReviewSetAverage(s)
    \/ \E s \in Slots, tok \in workload.tokens, id \in ReviewPathIds,
          rating \in workload.putRatings, comment \in workload.comments,
          bodyUser \in workload.bodyUsers :
          WsPutReview(s, tok, id, rating, comment, bodyUser)
    \/ \E s \in Slots : WsPutReviewWrite(s)
    \/ \E s \in Slots, tok \in workload.tokens, id \in ReviewPathIds,
          bodyUser \in workload.bodyUsers :
          WsDeleteReview(s, tok, id, bodyUser)
    \/ \E s \in Slots : WsDeleteReviewWrite(s)

Next == NextCore \/ NextWs

\* a workload of at most MaxBooks books, titled "Dune", and MaxReviewIds reviews
Clients(tokens, ratings, putRatings, comments, bodyUsers, inflight, detail) ==
    [tokens |-> tokens, ratings |-> ratings, putRatings |-> putRatings,
     comments |-> comments, bodyUsers |-> bodyUsers,
     titles |-> {Str("Dune")}, books |-> MaxBooks, reviews |-> MaxReviewIds,
     inflight |-> inflight, detail |-> detail]

TwoUsers == {TokenOf(1), TokenOf(2)}

\* core.js, one request at a time, every rating an integer in 1..5
InitCoreSeqValid ==
    /\ server = "core"
    /\ workload = Clients(ValidTokens, ValidRatings, ValidRatings \cup {Undef},
                          {Undef}, {0}, 1, FALSE)
    /\ InitStore

SpecCoreSeqValid == InitCoreSeqValid /\ [][NextCore]_vars

\* working-server.js, one request at a time, every rating an integer in 1..5
InitWsSeqValid ==
    /\ server = "ws"
    /\ workload = Clients(TwoUsers, ValidRatings, ValidRatings, {Undef}, {0}, 1, FALSE)
    /\ InitStore

SpecWsSeqValid == InitWsSeqValid /\ [][NextWs]_vars

\* either server, one request at a time, two users reviewing
InitSeqTwoUsers ==
    /\ server \in {"core", "ws"}
    /\ workload = Clients(TwoUsers, {Num(0), Num(50)}, {Num(30)},
                          {Undef}, {0}, 1, TRUE)
    /\ InitStore

SpecSeqTwoUsers == InitSeqTwoUsers /\ [][Next]_vars

\* either server, one request at a time, one user sending any rating
InitSeqAnyRating ==
    /\ server \in {"core", "ws"}
    /\ workload = Clients({TokenOf(1)}, AnyRatings, AnyRatings, {Undef}, {0}, 1, TRUE)
    /\ InitStore

SpecSeqAnyRating == InitSeqAnyRating /\ [][Next]_vars

\* either server, one request at a time, updates of some of the fields
InitSeqPartial ==
    /\ server \in {"core", "ws"}
    /\ workload = Clients(TwoUsers, {Num(50)}, {Undef, Num(10)}, Comments, {0}, 1, TRUE)
    /\ InitStore

SpecSeqPartial == InitSeqPartial /\ [][Next]_vars

\* either server, one request at a time, with and without a good token
InitSeqTokens ==
    /\ server \in {"core", "ws"}
    /\ workload = [Clients({NoToken, BadToken, TokenOf(1)}, {Num(50)}, {Undef, Num(10)},
                           {Undef}, {0}, 1, TRUE)
                     EXCEPT !.titles = {Undef, Str("Dune")}]
    /\ InitStore

SpecSeqTokens == InitSeqTokens /\ [][Next]_vars

\* core.js, requests interleaved, a userId in the body of PUT and DELETE
InitCoreOwners ==
    /\ server = "core"
    /\ workload = [Clients(TwoUsers, {Num(50)}, {Num(10)}, {Str("c")},
                           {0, 1, 2}, MaxInFlight, TRUE)
                     EXCEPT !.reviews = 2]
    /\ InitStore

SpecCoreOwners == InitCoreOwners /\ [][NextCore]_vars

\* either server, requests interleaved
InitInterleaved ==
    /\ server \in {"core", "ws"}
    /\ workload = [Clients(TwoUsers, {Num(50)}, {Num(10)}, {Undef}, {0},
                           MaxInFlight, FALSE)
                     EXCEPT !.reviews = 2]
    /\ InitStore

SpecInterleaved == InitInterleaved /\ [][Next]_vars

\* working-server.js, requests interleaved
InitWsInterleaved ==
    /\ server = "ws"
    /\ workload = [Clients(TwoUsers, {Num(50)}, {Num(10)}, {Undef}, {0},
                           MaxInFlight, FALSE)
                     EXCEPT !.reviews = 2]
    /\ InitStore

SpecWsInterleaved == InitWsInterleaved /\ [][NextWs]_vars

\* the signups of a workload: the fields sent, at most MaxUsers users stored
SignupClients(usernames, emails, passwords, inflight) ==
    [usernames |-> usernames, emails |-> emails, passwords |-> passwords,
     users |-> MaxUsers, inflight |-> inflight, detail |-> TRUE]

Usernames == {Undef, Str("ann"), Str("bob")}
Emails == {Undef, Str("a@x"), Str("b@x")}
Passwords == {Undef, Str("abc"), Str("secret")}

NextSignup ==
    \/ ClientReceives
    \/ \E s \in Slots, username \in workload.usernames, email \in workload.emails,
          password \in workload.passwords :
          Signup(s, username, email, password)
    \/ \E s \in Slots : SignupInsert(s)

\* either server, signups interleaved
InitSignup ==
    /\ server \in {"core", "ws"}
    /\ workload = SignupClients(Usernames, Emails, Passwords, MaxInFlight)
    /\ InitStore

SpecSignup == InitSignup /\ [][NextSignup]_vars

\* the clients of a catalogue that is listed and searched: up to
\* MaxListedBooks books, reviewed by two users, one request at a time
Readers(authors, pages, limits, filters, qs, ratings) ==
    [tokens |-> TwoUsers, titles |-> {Str("Dune"), Str("Emma")},
     authors |-> authors, genres |-> {Str("Fiction")},
     ratings |-> ratings, comments |-> {Undef},
     pages |-> pages, limits |-> limits, filters |-> filters, qs |-> qs,
     books |-> MaxListedBooks, reviews |-> MaxReviewIds,
     inflight |-> 1, detail |-> FALSE]

NextList ==
    \/ ClientReceives
    \/ \E s \in Slots, tok \in workload.tokens, title \in workload.titles,
          author \in workload.authors, genre \in workload.genres :
          \/ CorePostBook(s, tok, title, author, genre)
          \/ WsPostBook(s, tok, title, author, genre)
    \/ \E s \in Slots : CorePostBookInsert(s)
    \/ \E s \in Slots, page \in workload.pages, limit \in workload.limits,
          author \in workload.filters, genre \in {Undef, Str("Fiction")} :
          \/ CoreListBooks(s, page, limit, author, genre)
          \/ WsListBooks(s, page, limit, author, genre)
    \/ \E s \in Slots : CoreListBooksCount(s)
    \/ \E s \in Slots : WsListBooksCount(s)

\* either server, books added and listed, one request at a time
InitList ==
    /\ server \in {"core", "ws"}
    /\ workload = Readers({Str("Herbert"), Str("Austen")},
                          {Undef, Str("abc"), Num(0), Num(10), Num(20), Num(30)},
                          {Undef, Str("abc"), Num(0), Num(10), Num(20)},
                          {Undef, Str("AUS")}, {}, {})
    /\ InitStore

SpecList == InitList /\ [][NextList]_vars

NextSearch ==
    \/ ClientReceives
    \/ \E s \in Slots, tok \in workload.tokens, title \in workload.titles,
          author \in workload.authors, genre \in workload.genres :
          \/ CorePostBook(s, tok, title, author, genre)
          \/ WsPostBook(s, tok, title, author, genre)
    \/ \E s \in Slots : CorePostBookInsert(s)
    \/ \E s \in Slots, tok \in workload.tokens, id \in {Oid(n) : n \in 1..MaxListedBooks},
          rating \in workload.ratings, comment \in workload.comments :
          \/ CorePostReview(s, tok, id, rating, comment)
          \/ WsPostReview(s, tok, id, rating, comment)
    \/ \E s \in Slots : CorePostReviewPush(s) \/ WsPostReviewPush(s)
    \/ \E s \in Slots : CorePostReviewReread(s) \/ WsPostReviewReread(s)
    \/ \E s \in Slots : CorePostReviewSetAverage(s) \/ WsPostReviewSetAverage(s)
    \/ \E s \in Slots, q \in workload.qs, page \in workload.pages,
          limit \in workload.limits :
          \/ CoreSearch(s, q, page, limit)
          \/ WsSearch(s, q, page, limit)
    \/ \E s \in Slots : CoreSearchCount(s)

\* either server, books added, reviewed and searched, one request at a time
InitSearch ==
    /\ server \in {"core", "ws"}
    /\ workload = Readers({Str("Herbert")}, {Undef, Num(20)}, {Undef, Num(10)}, {},
                          {Undef, Str("UN"), Str("."), Str("x")},
                          {Num(10), Num(50)})
    /\ InitStore

SpecSearch == InitSearch /\ [][NextSearch]_vars

NextAdds ==
    \/ ClientReceives
    \/ \E s \in Slots, tok \in workload.tokens, title \in workload.titles,
          author \in Authors, genre \in Genres :
          CorePostBook(s, tok, title, author, genre)
    \/ \E s \in Slots : CorePostBookInsert(s)
    \/ \E s \in Slots, tok \in workload.tokens, id \in BookPathIds,
          rating \in workload.ratings, comment \in workload.comments :
          CorePostReview(s, tok, id, rating, comment)
    \/ \E s \in Slots : CorePostReviewPush(s)
    \/ \E s \in Slots : CorePostReviewReread(s)
    \/ \E s \in Slots : CorePostReviewSetAverage(s)

\* core.js, reviews added by two users, requests interleaved
InitCoreAdds ==
    /\ server = "core"
    /\ workload = Clients(TwoUsers, {Num(10), Num(50)}, {}, {Undef}, {0},
                          MaxInFlight, FALSE)
    /\ InitStore

SpecCoreAdds == InitCoreAdds /\ [][NextAdds]_vars

\* a recomputation would change the book's averageRating
Stale(book) ==
    book.averageRating #
        (IF Len(book.reviews) = 0 THEN Num(0) ELSE AverageOf(book.reviews))

\* with nothing in flight and a stale average in the store, the clients go
\* over to sending one request at a time
ClientsSerialize ==
    /\ resp = NoResp
    /\ InFlight = {}
    /\ workload.inflight > 1
    /\ \E b \in BookIds : Stale(books[b])
    /\ workload' = [workload EXCEPT !.inflight = 1]
    /\ UNCHANGED <<server, books, nextReviewId, reqs, resp, acked, retired,
                   users, listing>>

NextCoreThenAlone ==
    \/ ClientReceives
    \/ ClientsSerialize
    \/ \E s \in Slots, tok \in workload.tokens, title \in workload.titles,
          author \in Authors, genre \in Genres :
          CorePostBook(s, tok, title, author, genre)
    \/ \E s \in Slots : CorePostBookInsert(s)
    \/ \E s \in Slots, tok \in workload.tokens, id \in BookPathIds,
          rating \in workload.ratings, comment \in workload.comments :
          CorePostReview(s, tok, id, rating, comment)
    \/ \E s \in Slots : CorePostReviewPush(s)
    \/ \E s \in Slots : CorePostReviewReread(s)
    \/ \E s \in Slots : CorePostReviewSetAverage(s)
    \/ \E s \in Slots, tok \in workload.tokens, id \in ReviewPathIds,
          rating \in workload.putRatings, comment \in workload.comments,
          bodyUser \in workload.bodyUsers :
          CorePutReview(s, tok, id, rating, comment, bodyUser)
    \/ \E s \in Slots : CorePutReviewSet(s)
    \/ \E s \in Slots : CorePutReviewReread(s)
    \/ \E s \in Slots : CorePutReviewSetAverage(s)
    \/ \E s \in Slots, tok \in workload.tokens, id \in ReviewPathIds,
          bodyUser \in workload.bodyUsers :
          CoreDeleteReview(s, tok, id, bodyUser)
    \/ \E s \in Slots : CoreDeleteReviewPull(s)
    \/ \E s \in Slots : CoreDeleteReviewReread(s)
    \/ \E s \in Slots : CoreDeleteReviewSetAverage(s)

\* core.js, requests interleaved until an average is stale, then one at a
\* time; every PUT sends a rating
InitCoreThenAlone ==
    /\ server = "core"
    /\ workload = Clients(TwoUsers, {Num(50)}, {Num(10)}, {Undef}, {0},
                          MaxInFlight, FALSE)
    /\ InitStore

SpecCoreThenAlone == InitCoreThenAlone /\ [][NextCoreThenAlone]_vars

\* ------------------------------------------- requests on different books
\* a review request as a client sends it: the handler, the token, the path
\* id and the rating of the body
ReviewOps == {"postReview", "putReview", "deleteReview"}

ReviewOp(op, tok, id, rating) == [op |-> op, tok |-> tok, id |-> id, rating |-> rating]

NoOp == ReviewOp("none", NoToken, MalformedId, Undef)

NoBook == NewBook(Undef, Undef, Undef)

\* the book a review request works on: the book of the path for an add, the
\* book holding the review for an update or a delete; 0 when there is none
TargetOf(o) ==
    IF o.op = "postReview"
    THEN (IF BookExists(o.id) THEN o.id.n ELSE 0)
    ELSE BookOfReview(o.id.n)

\* the requests in flight that found book b
OnBook(b) == {s \in InFlight : reqs[s].book = b}

\* POST /books/:id/reviews run from its first line to its last with no
\* other request between: the status and the book it leaves
AddAlone(o, book) ==
    IF RatingRejectedOnCreate(o.rating) THEN [status |-> 400, book |-> book]
    ELSE IF HasReviewBy(book.reviews, o.tok.userId)
    THEN [status |-> 409, book |-> book]
    ELSE LET reviews == Append(book.reviews,
                               Review(nextReviewId, o.tok.userId,
                                      ParseInt(o.rating), OrEmpty(Undef)))
         IN [status |-> 201,
             book |-> [book EXCEPT !.reviews = reviews,
                                   !.totalReviews = @ + 1,
                                   !.averageRating = AverageOf(reviews)]]

\* PUT /reviews/:id run alone, in core.js and in working-server.js
PutAlone(o, book) ==
    LET i == IndexOfReview(book.reviews, o.id.n)
    IN IF server = "core" /\ RatingRejectedOnUpdate(o.rating)
       THEN [status |-> 400, book |-> book]
       ELSE IF book.reviews[i].userId # o.tok.userId
       THEN [status |-> 403, book |-> book]
       ELSE IF server = "core"
       THEN LET reviews == [book.reviews EXCEPT
                              ![i] = WithFields(@, o.rating, Undef)]
            IN [status |-> 200,
                book |-> [book EXCEPT !.reviews = reviews,
                                      !.averageRating =
                                          IF Truthy(o.rating)
                                          THEN AverageOf(reviews) ELSE @]]
       ELSE [status |-> 200,
             book |-> [book EXCEPT !.reviews[i].rating = Stored(o.rating),
                                   !.reviews[i].comment = Stored(Undef)]]

\* DELETE /reviews/:id run alone, in core.js and in working-server.js
DeleteAlone(o, book) ==
    LET i == IndexOfReview(book.reviews, o.id.n)
    IN IF book.reviews[i].userId # o.tok.userId
       THEN [status |-> 403, book |-> book]
       ELSE IF server = "core"
       THEN LET reviews == Pull(book.reviews, o.id.n)
            IN [status |-> 200,
                book |-> [book EXCEPT !.reviews = reviews,
                                      !.totalReviews = @ - 1,
                                      !.averageRating = AverageOrZero(reviews)]]
       ELSE [status |-> 200,
             book |-> [book EXCEPT !.reviews = Splice(@, i)]]

Alone(o, book) ==
    CASE o.op = "postReview" -> AddAlone(o, book)
      [] o.op = "putReview" -> PutAlone(o, book)
      [] o.op = "deleteReview" -> DeleteAlone(o, book)

\* the store after two POST /books
TwoBooks ==
    <<NewBook(Str("Dune"), Str("Herbert"), Str("Fiction")),
      NewBook(Str("Emma"), Str("Austen"), Str("Fiction"))>>

\* clients that send a review request only for a book no request in flight
\* is working on, and that note, per book, the last request sent for it and
\* what that request does when it runs alone on the book as it is
Apart(c) ==
    [tokens |-> c.tokens, ratings |-> c.ratings, putRatings |-> c.putRatings,
     comments |-> c.comments, bodyUsers |-> c.bodyUsers,
     titles |-> c.titles, books |-> Len(TwoBooks),
     reviews |-> c.reviews, inflight |-> c.inflight, detail |-> c.detail,
     sending |-> NoOp,
     sent |-> [b \in 1..Len(TwoBooks) |->
                 [op |-> NoOp, status |-> 0, book |-> NoBook]]]

\* a client picks its request; the request arrives in the next step
ClientSends(o) ==
    /\ resp = NoResp
    /\ workload.sending = NoOp
    /\ Cardinality(InFlight) < workload.inflight
    /\ o.op = "postReview" => nextReviewId <= workload.reviews
    /\ TargetOf(o) # 0
    /\ OnBook(TargetOf(o)) = {}
    /\ workload' = [workload EXCEPT
                      !.sending = o,
                      !.sent[TargetOf(o)] =
                          [op |-> o,
                           status |-> Alone(o, books[TargetOf(o)]).status,
                           book |-> Alone(o, books[TargetOf(o)]).book]]
    /\ UNCHANGED <<server, books, nextReviewId, reqs, resp, acked, retired,
                   users, listing>>

\* the request sent has been answered or is held in a slot
Arrived(o) ==
    \/ resp # NoResp
    \/ \E s \in InFlight :
          reqs[s].op = o.op /\ reqs[s].tok = o.tok /\ reqs[s].id = o.id

ClientSent ==
    /\ workload.sending # NoOp
    /\ Arrived(workload.sending)
    /\ workload' = [workload EXCEPT !.sending = NoOp]
    /\ UNCHANGED <<server, books, nextReviewId, reqs, resp, acked, retired,
                   users, listing>>

Sending(op) == workload.sending.op = op /\ ~Arrived(workload.sending)

NextApart ==
    \/ workload.sending = NoOp /\ ClientReceives
    \/ \E tok \in workload.tokens, id \in BookPathIds, rating \in workload.ratings :
          ClientSends(ReviewOp("postReview", tok, id, rating))
    \/ \E tok \in workload.tokens, id \in ReviewPathIds,
          rating \in workload.putRatings :
          ClientSends(ReviewOp("putReview", tok, id, rating))
    \/ \E tok \in workload.tokens, id \in ReviewPathIds :
          ClientSends(ReviewOp("deleteReview", tok, id, Undef))
    \/ ClientSent
    \/ \E s \in Slots :
          /\ Sending("postReview")
          /\ \/ CorePostReview(s, workload.sending.tok, workload.sending.id,
                               workload.sending.rating, Undef)
             \/ WsPostReview(s, workload.sending.tok, workload.sending.id,
                             workload.sending.rating, Undef)
    \/ \E s \in Slots :
          /\ Sending("putReview")
          /\ \/ CorePutReview(s, workload.sending.tok, workload.sending.id,
                              workload.sending.rating, Undef, 0)
             \/ WsPutReview(s, workload.sending.tok, workload.sending.id,
                            workload.sending.rating, Undef, 0)
    \/ \E s \in Slots :
          /\ Sending("deleteReview")
          /\ \/ CoreDeleteReview(s, workload.sending.tok, workload.sending.id, 0)
             \/ WsDeleteReview(s, workload.sending.tok, workload.sending.id, 0)
    \/ \E s \in Slots : workload.sending = NoOp /\ CorePostReviewPush(s)
    \/ \E s \in Slots : workload.sending = NoOp /\ CorePostReviewReread(s)
    \/ \E s \in Slots : workload.sending = NoOp /\ CorePostReviewSetAverage(s)
    \/ \E s \in Slots : workload.sending = NoOp /\ CorePutReviewSet(s)
    \/ \E s \in Slots : workload.sending = NoOp /\ CorePutReviewReread(s)
    \/ \E s \in Slots : workload.sending = NoOp /\ CorePutReviewSetAverage(s)
    \/ \E s \in Slots : workload.sending = NoOp /\ CoreDeleteReviewPull(s)
    \/ \E s \in Slots : workload.sending = NoOp /\ CoreDeleteReviewReread(s)
    \/ \E s \in Slots : workload.sending = NoOp /\ CoreDeleteReviewSetAverage(s)
    \/ \E s \in Slots : workload.sending = NoOp /\ WsPostReviewPush(s)
    \/ \E s \in Slots : workload.sending = NoOp /\ WsPostReviewReread(s)
    \/ \E s \in Slots : workload.sending = NoOp /\ WsPostReviewSetAverage(s)
    \/ \E s \in Slots : workload.sending = NoOp /\ WsPutReviewWrite(s)
    \/ \E s \in Slots : workload.sending = NoOp /\ WsDeleteReviewWrite(s)

\* either server, two books in the store, requests interleaved but never
\* two of them on one book
InitApart ==
    /\ server \in {"core", "ws"}
    /\ workload = Apart(Clients(TwoUsers, {Num(50)}, {Num(10)}, {Undef}, {0},
                                MaxInFlight, TRUE))
    /\ books = TwoBooks
    /\ nextReviewId = 1
    /\ reqs = [s \in Slots |-> Idle]
    /\ resp = NoResp
    /\ acked = {}
    /\ retired = {}
    /\ users = <<>>
    /\ listing = NoListing

SpecApart == InitApart /\ [][NextApart]_vars

\* ---------------------------------------------------------------- claims
RECURSIVE RatingSum(_, _)
RatingSum(reviews, k) ==
    IF k = 0 THEN 0 ELSE reviews[k].rating.n + RatingSum(reviews, k - 1)

\* avg is the mean of the ratings to the nearest tenth (numbers in tenths),
\* and 0 when there is no review
IsRoundedMean(avg, reviews) ==
    IF Len(reviews) = 0 THEN avg = Num(0)
    ELSE /\ avg.t = "number"
         /\ \A i \in 1..Len(reviews) : reviews[i].rating.t = "number"
         /\ 2 * Abs(avg.n * Len(reviews) - RatingSum(reviews, Len(reviews))) <= Len(reviews)

SummaryMatches(book) ==
    /\ book.totalReviews = Len(book.reviews)
    /\ IsRoundedMean(book.averageRating, book.reviews)

HasRatings1(book, r1) ==
    Len(book.reviews) = 1 /\ book.reviews[1].rating = Num(r1)

HasRatings2(book, r1, r2) ==
    /\ Len(book.reviews) = 2
    /\ book.reviews[1].rating = Num(r1)
    /\ book.reviews[2].rating = Num(r2)

\* C1: in core.js, with requests run one at a time and every rating an
\* integer in 1..5, whenever no request is in flight every book has
\* totalReviews equal to the number of its reviews and averageRating equal to
\* the mean of their ratings rounded to one decimal, 0 without reviews; the
\* ratings 5 give 5.0/1, 5 and 3 give 4.0/2, 1 and 3 give 2.0, 1 gives 1.0/1.
C1_SummaryMatchesReviews ==
    (server = "core" /\ InFlight = {}) =>
        \A b \in BookIds :
            /\ SummaryMatches(books[b])
            /\ HasRatings1(books[b], 50) =>
                   books[b].averageRating = Num(50) /\ books[b].totalReviews = 1
            /\ HasRatings2(books[b], 50, 30) =>
                   books[b].averageRating = Num(40) /\ books[b].totalReviews = 2
            /\ HasRatings2(books[b], 10, 30) => books[b].averageRating = Num(20)
            /\ HasRatings1(books[b], 10) =>
                   books[b].averageRating = Num(10) /\ books[b].totalReviews = 1

\* the end of the example: review 1 (once 5, now 1) is left after review 2
\* was deleted, and the DELETE has just been answered
C1_Witness ==
    /\ server = "core"
    /\ resp.op = "deleteReview" /\ resp.status = 200
    /\ retired = {2}
    /\ \E b \in BookIds :
          /\ HasRatings1(books[b], 10)
          /\ books[b].reviews[1].id = 1
          /\ books[b].averageRating = Num(10)
          /\ books[b].totalReviews = 1

\* C2: in working-server.js, after a PUT /reviews/:id that changes a rating
\* and after a DELETE /reviews/:id, each run alone and answered 200, every
\* book has totalReviews equal to the number of its reviews and averageRating
\* equal to the rounded mean of their ratings, 0 without reviews.
C2_WsSummaryAfterUpdateDelete ==
    (server = "ws" /\ resp.status = 200 /\ resp.op \in {"putReview", "deleteReview"}) =>
        \A b \in BookIds : SummaryMatches(books[b])

ReviewsOf(b) == {books[b].reviews[i] : i \in 1..Len(books[b].reviews)}

AllReviews == UNION {ReviewsOf(b) : b \in BookIds}

\* the users with a review on book b, and the users owning a review id
ReviewersOf(b) == {r.userId : r \in ReviewsOf(b)}
OwnersOf(rid) == {r.userId : r \in {x \in AllReviews : x.id = rid}}

\* a request arrives while nothing is in flight
ArrivesAlone == InFlight = {} /\ resp = NoResp

IsAddBy(r, u, b) == r.op = "postReview" /\ r.tok = TokenOf(u) /\ r.id = Oid(b)

\* C3: with requests run one at a time, an AddReview by a user who has a
\* review on the book is never taken up: it is answered with an error, 409
\* when its rating is valid, and the books are unchanged, whatever ran before;
\* an AddReview with a valid rating by a user who has none (never had one, or
\* deleted it) is not answered with an error.
C3_SecondAddConflicts ==
    [][\A u \in Users, b \in BookIds :
          ArrivesAlone =>
              /\ u \in ReviewersOf(b) =>
                    /\ \A s \in Slots : ~IsAddBy(reqs'[s], u, b)
                    /\ IsAddBy(resp', u, b) =>
                          /\ resp'.status \in {400, 409}
                          /\ resp'.rating \in ValidRatings => resp'.status = 409
                          /\ books' = books
              /\ (u \notin ReviewersOf(b) /\ IsAddBy(resp', u, b)) =>
                    resp'.status = 400 /\ resp'.rating \notin ValidRatings]_vars

\* user 1, whose review stands first, adds again after user 2's review went
\* in, and is answered 409
C3_Witness ==
    /\ resp.op = "postReview" /\ resp.status = 409 /\ resp.tok = TokenOf(1)
    /\ Len(books) = 1
    /\ Len(books[1].reviews) = 2
    /\ books[1].reviews[1].userId = 1
    /\ books[1].reviews[2].userId = 2

Mutating == {"postBook", "postReview", "putReview", "deleteReview"}

\* the requests that take a step
Stepping == {s \in Slots : reqs'[s] # reqs[s]}

\* a PUT or DELETE naming an existing review is answered 403 with the books
\* unchanged exactly when the verified userId is not the review's, whatever
\* userId the body carries; it is taken up only for the review's user; and a
\* step that adds, changes or removes a review belongs to a request verified
\* as that review's user
OwnerOnlyStep ==
    /\ (/\ resp = NoResp /\ resp' # NoResp /\ reqs' = reqs
        /\ resp'.op \in {"putReview", "deleteReview"}
        /\ resp'.tok.kind = "valid" /\ resp'.id.valid
        /\ OwnersOf(resp'.id.n) # {}) =>
           IF resp'.tok.userId \notin OwnersOf(resp'.id.n)
           THEN resp'.status = 403 /\ books' = books
           ELSE resp'.status # 403
    /\ \A s \in Slots :
           (reqs[s] = Idle /\ reqs'[s].op \in {"putReview", "deleteReview"}) =>
               reqs'[s].tok.userId \in OwnersOf(reqs'[s].id.n)
    /\ \A r \in (AllReviews \ AllReviews') \cup (AllReviews' \ AllReviews) :
           \E s \in Stepping :
               /\ reqs[s].tok.kind = "valid"
               /\ reqs[s].tok.userId = r.userId

\* C4: an UpdateReview or DeleteReview on an existing review by a caller who
\* is not its user fails with 403 and changes nothing, a userId in the body
\* plays no part, and in every reachable state, requests interleaved or not,
\* a review was written or removed only by a request verified as its user.
C4_OwnerOnly == [][OwnerOnlyStep]_vars

\* C4, the part core.js keeps: the same property of the router of core.js,
\* requests interleaved, callers naming any userId in the body.
C4_CoreOwnerOnly == [][server = "core" => OwnerOnlyStep]_vars

\* a caller who is not the owner names the owner in the body and gets 403
C4_CoreWitness ==
    /\ server = "core"
    /\ resp.op = "putReview" /\ resp.status = 403
    /\ resp.owner # 0 /\ resp.bodyUser = resp.owner
    /\ resp.tok.userId # resp.owner

InvalidRatings == {Num(0), Num(60), Num(-10), Str("abc")}

\* C5: POST /books/:id/reviews and PUT /reviews/:id with a rating of 0, 6, -1
\* or a non-numeric value are answered 400: for a verified caller and a
\* well-formed id the answer is never a success (nor anything but 400, unless
\* the book or review is missing, not the caller's, or already reviewed).
C5_InvalidRatingRejected ==
    (/\ resp.op \in {"postReview", "putReview"}
     /\ resp.tok.kind = "valid" /\ resp.id.valid
     /\ resp.rating \in InvalidRatings
     /\ resp.status \notin {403, 404, 409}) => resp.status = 400

\* C6: the write of PUT /reviews/:id leaves the number of reviews,
\* totalReviews and every other review as they were, leaves the rating when
\* none was sent, leaves the comment when none was sent, and stores an empty
\* comment as empty.
C6_PartialUpdate ==
    [][\A s \in Stepping :
          (reqs[s].op = "putReview" /\ reqs[s].pc \in {"set", "write"}) =>
              LET before == books[reqs[s].book]
                  after == books'[reqs[s].book]
              IN /\ Len(after.reviews) = Len(before.reviews)
                 /\ after.totalReviews = before.totalReviews
                 /\ \A i \in 1..Len(before.reviews) :
                        IF before.reviews[i].id # reqs[s].id.n
                        THEN after.reviews[i] = before.reviews[i]
                        ELSE /\ reqs[s].rating = Undef =>
                                   after.reviews[i].rating = before.reviews[i].rating
                             /\ reqs[s].comment = Undef =>
                                   after.reviews[i].comment = before.reviews[i].comment
                             /\ reqs[s].comment = Str("") =>
                                   after.reviews[i].comment = Str("")]_vars

\* C7: no book ever holds two reviews of one user.
C7_OneReviewPerUser ==
    \A b \in BookIds :
        \A i, j \in 1..Len(books[b].reviews) :
            i # j => books[b].reviews[i].userId # books[b].reviews[j].userId

\* C8: a review answered 201 is in the store until a DELETE of its author
\* takes it out.
C8_AckedReviewsStay == \A rid \in acked : OwnersOf(rid) # {}

\* C9: a malformed path id is answered 400 by GET /books/:id, POST
\* /books/:id/reviews, PUT /reviews/:id and DELETE /reviews/:id, and a
\* well-formed id that was never given out is answered 400 (a bad rating) or
\* 404, never anything else.
C9_MalformedIdIs400 ==
    (/\ resp.op \in {"getBook", "postReview", "putReview", "deleteReview"}
     /\ resp.op = "getBook" \/ resp.tok.kind = "valid") =>
        /\ resp.id = MalformedId => resp.status = 400
        /\ (/\ resp.id.valid
            /\ resp.op \in {"getBook", "postReview"}
            /\ resp.id.n \notin BookIds) => resp.status \in {400, 404}
        /\ (/\ resp.id.valid
            /\ resp.op \in {"putReview", "deleteReview"}
            /\ resp.id.n >= nextReviewId) => resp.status \in {400, 404}
        /\ (resp.op = "getBook" /\ resp.id.valid /\ resp.id.n \notin BookIds) =>
               resp.status = 404

\* C10: a mutating request without a token is answered 401 and one with an
\* invalid token 403, nothing else changing in that step; no such request is
\* ever in a handler; and the books change only in a step of a request with
\* a verified token.
C10_AuthBeforeHandler ==
    [][/\ (/\ resp' # NoResp /\ resp' # resp
           /\ resp'.op \in Mutating
           /\ resp'.tok.kind # "valid") =>
              /\ resp'.status = IF resp'.tok.kind = "absent" THEN 401 ELSE 403
              /\ UNCHANGED <<books, users, listing, reqs, nextReviewId, acked, retired>>
       /\ \A s \in Slots :
              reqs'[s].op \in Mutating => reqs'[s].tok.kind = "valid"
       /\ books' # books =>
              \/ \E s \in Stepping : reqs[s].tok.kind = "valid"
              \/ resp'.op = "postBook" /\ resp'.status = 201
                 /\ resp'.tok.kind = "valid"]_vars

\* with a book in the store, a review sent with an invalid token gets 403
C10_Witness ==
    /\ resp.op = "postReview" /\ resp.status = 403 /\ resp.tok = BadToken
    /\ Len(books) = 1

\* C11: no two stored users share a username or an email, also after signups
\* that interleave.
C11_UniqueUsers ==
    \A i, j \in 1..Len(users) :
        i # j => /\ users[i].username # users[j].username
                 /\ users[i].email # users[j].email

\* the page and the limit a query asks for: 1 and 10 when absent or not a number
AskedFor(v, d) == IF v.t = "number" THEN v.n \div 10 ELSE d

\* the listing order of GET /books: newest first in core.js, the order of
\* insertion in working-server.js
ListedAt(hits, k) ==
    IF server = "core"
    THEN CHOOSE b \in hits : Cardinality({c \in hits : c > b}) = k - 1
    ELSE CHOOSE b \in hits : Cardinality({c \in hits : c < b}) = k - 1

\* the answer to a GET /books with page p and limit l, both at least 1 when
\* numeric, is the page of the listing order with the pagination of the claim
ListPage ==
    (/\ resp.op = "listBooks"
     /\ listing.query.page # Num(0)
     /\ listing.query.limit # Num(0)) =>
        LET p == AskedFor(listing.query.page, 1)
            l == AskedFor(listing.query.limit, 10)
            hits == ListFilter(listing.query)
            n == Cardinality(hits)
            first == (p - 1) * l + 1
            last == IF p * l < n THEN p * l ELSE n
            pages == (n + l - 1) \div l
        IN /\ resp.status = 200
           /\ Len(listing.books) <= l
           /\ listing.books = [i \in 1..(last - first + 1) |-> ListedAt(hits, first + i - 1)]
           /\ listing.total = n
           /\ listing.totalPages = pages
           /\ listing.hasNext = Bool(p < pages)
           /\ listing.hasPrev = Bool(p > 1)
           /\ (Len(books) = 2 /\ listing.query = Query(Num(20), Num(10), Undef, Undef, Undef)) =>
                  /\ listing.books = <<ListedAt(BookIds, 2)>>
                  /\ listing.hasNext = Bool(FALSE)
                  /\ listing.hasPrev = Bool(TRUE)

\* C12: GET /books with page p and limit l over n matching books returns
\* the books at positions (p-1)*l+1 .. p*l of the listing order, at most l,
\* with totalBooks n, totalPages ceil(n/l), hasNext p < totalPages and
\* hasPrev p > 1, an absent or non-numeric page or limit counting as 1 and
\* 10; two books listed with page=2&limit=1 give the second, hasNext false,
\* hasPrev true.
C12_ListPage == ListPage

\* C12, the part core.js keeps: the same property of GET /books of core.js.
C12_CoreListPage == server = "core" => ListPage

\* core.js lists the second of two books for page=2&limit=1
C12_CoreWitness ==
    /\ server = "core"
    /\ resp.op = "listBooks" /\ resp.status = 200
    /\ Len(books) = 2
    /\ listing.query = Query(Num(20), Num(10), Undef, Undef, Undef)
    /\ listing.books = <<1>>
    /\ listing.hasNext = Bool(FALSE) /\ listing.hasPrev = Bool(TRUE)

\* text contains q, letter case apart, every character of q taken literally
ContainsText(q, text) ==
    LET pat == Chars(q.s)
        txt == Chars(text.s)
    IN \E i \in 1..(Len(txt) - Len(pat) + 1) :
           \A k \in 1..Len(pat) : LowerChar(pat[k]) = LowerChar(txt[i + k - 1])

\* the answer to a GET /search: 400 and nothing else without q; with q, one
\* page of the books whose title or author contains q, best rated first
\* and, among equally rated books, most reviewed first
SearchPage ==
    /\ \A s \in Slots : reqs[s].op = "search" => Truthy(reqs[s].query.q)
    /\ (resp.op = "search" /\ resp.status # 400) =>
           LET q == listing.query.q
               p == AskedFor(listing.query.page, 1)
               l == AskedFor(listing.query.limit, 10)
               hits == {b \in BookIds : \/ ContainsText(q, books[b].title)
                                        \/ ContainsText(q, books[b].author)}
               n == Cardinality(hits)
               first == (p - 1) * l + 1
               last == IF p * l < n THEN p * l ELSE n
               found == listing.books
           IN /\ resp.status = 200
              /\ Truthy(q)
              /\ \A i \in 1..Len(found) : found[i] \in hits
              /\ \A i, j \in 1..Len(found) : i # j => found[i] # found[j]
              /\ Len(found) = IF last >= first THEN last - first + 1 ELSE 0
              /\ \A i, j \in 1..Len(found) :
                     i < j =>
                         \/ books[found[i]].averageRating.n > books[found[j]].averageRating.n
                         \/ /\ books[found[i]].averageRating.n = books[found[j]].averageRating.n
                            /\ books[found[i]].totalReviews >= books[found[j]].totalReviews

\* C13: GET /search with a non-empty q (of letters) returns exactly the
\* books whose title or author contains q case-insensitively, restricted to
\* the requested page, ordered by averageRating descending and then by
\* totalReviews descending; a missing q gets 400.
C13_SearchPage == listing.query.q # Str(".") => SearchPage

\* C13 for any q, in core.js: the same with a q that holds a character special to
\* regular expressions.
C13_SearchAnyPattern == server = "core" => SearchPage

\* C13, the part core.js keeps: the property for a q of letters in core.js.
C13_CoreSearchPage == (server = "core" /\ listing.query.q # Str(".")) => SearchPage

\* core.js finds two books, the better rated first though added later
C13_CoreWitness ==
    /\ server = "core"
    /\ resp.op = "search" /\ resp.status = 200
    /\ listing.books = <<2, 1>>
    /\ books[2].averageRating.n > books[1].averageRating.n

\* C14: in core.js two AddReviews of different users on one book can
\* interleave so that both are answered 201 and the stored averageRating is
\* not the rounded mean of the stored reviews; the average that stays is
\* then the rounded mean of a snapshot taken before the other review was
\* appended, that is, of the first reviews of the book up to some review.
C14_StaleAverageIsOfSnapshot ==
    InFlight = {} =>
        \A b \in BookIds :
            Len(books[b].reviews) > 0 =>
                \E k \in 1..Len(books[b].reviews) :
                    IsRoundedMean(books[b].averageRating,
                                  SubSeq(books[b].reviews, 1, k))

\* both reviews answered 201, nothing in flight, and the average is that of
\* the first review alone
C14_Witness ==
    /\ server = "core"
    /\ InFlight = {}
    /\ acked = {1, 2}
    /\ Len(books) = 1
    /\ Len(books[1].reviews) = 2
    /\ books[1].reviews[1].userId # books[1].reviews[2].userId
    /\ ~IsRoundedMean(books[1].averageRating, books[1].reviews)
    /\ IsRoundedMean(books[1].averageRating, SubSeq(books[1].reviews, 1, 1))

\* C15: in core.js, once requests run one at a time from a state with no
\* request in flight and a stale averageRating, every AddReview,
\* DeleteReview and UpdateReview with a rating that completes leaves each
\* book's averageRating equal to the rounded mean of its reviews, 0 when it
\* has none.
C15_NextMutationCorrects ==
    (/\ server = "core"
     /\ workload.inflight = 1
     /\ resp.op \in {"postReview", "putReview", "deleteReview"}
     /\ resp.status \in {200, 201}) =>
        \A b \in BookIds : IsRoundedMean(books[b].averageRating, books[b].reviews)

\* a stale average is put right by a DELETE that runs alone: the review
\* that stays is rated 1 and so is the book
C15_Witness ==
    /\ server = "core"
    /\ workload.inflight = 1
    /\ resp.op = "deleteReview" /\ resp.status = 200
    /\ Len(books) = 1
    /\ Len(books[1].reviews) = 1
    /\ books[1].reviews[1].rating = Num(10)
    /\ books[1].averageRating = Num(10)

\* C17: in core.js totalReviews is the number of stored reviews of the book
\* in every reachable state, and never negative, also when requests on one
\* book interleave.
C17_TotalIsCount ==
    server = "core" =>
        \A b \in BookIds :
            /\ books[b].totalReviews = Len(books[b].reviews)
            /\ books[b].totalReviews >= 0

\* C18: in core.js, whenever no request is in flight, a book with no
\* reviews has averageRating equal to the number 0, also when an update or
\* an add interleaves with the delete of the book's last review.
C18_EmptyBookAveragesZero ==
    (server = "core" /\ InFlight = {}) =>
        \A b \in BookIds :
            Len(books[b].reviews) = 0 => books[b].averageRating = Num(0)

\* the book of the request that steps in slot s
BookOfStep(s) == IF reqs[s] # Idle THEN reqs[s].book ELSE reqs'[s].book

\* a step changes only the book of the request that takes it
OtherBooksStay ==
    \A b \in BookIds :
        (\A s \in Stepping : BookOfStep(s) # b) => books'[b] = books[b]

\* the response to a review request is the one it gets when run alone
AnsweredAsAlone ==
    resp.op \in ReviewOps =>
        \E b \in BookIds :
            /\ workload.sent[b].op =
                   ReviewOp(resp.op, resp.tok, resp.id, resp.rating)
            /\ workload.sent[b].status = resp.status

\* a book that no request is working on is as its last request, run
\* alone, leaves it
StoredAsAlone ==
    \A b \in BookIds :
        (/\ workload.sending = NoOp
         /\ OnBook(b) = {}
         /\ workload.sent[b].op # NoOp) => books[b] = workload.sent[b].book

\* C16: a review request on one book leaves every other book as it is, and
\* requests on different books that interleave step by step end, book by
\* book, in the store state and with the response of the requests run one
\* after the other.
C16_BooksApart ==
    /\ [](AnsweredAsAlone /\ StoredAsAlone)
    /\ [][OtherBooksStay]_vars

\* core.js: a DELETE on one book has answered 200 and left the book as it
\* does alone, while a PUT on the other book, which arrived before that
\* answer, is between its reread and its last write
C16_Witness ==
    \E b \in BookIds, t \in Slots :
        /\ server = "core"
        /\ resp.op = "deleteReview"
        /\ resp.status = 200
        /\ workload.sent[b].op.op = "deleteReview"
        /\ workload.sent[b].op.id = resp.id
        /\ books[b] = workload.sent[b].book
        /\ reqs[t].op = "putReview"
        /\ reqs[t].pc = "setavg"
        /\ reqs[t].book # b

====
